---- MODULE Spec2Model ----
(***************************************************************************)
(* A model of the sales-record web client: the App shell (auth, role and   *)
(* route state), the inventory table with its movement dialog, the order   *)
(* editor, and the delete handlers of the dashboard and client pages.      *)
(* Each component has its own specification; a component that is not part  *)
(* of a specification keeps its initial state in it.                       *)
(*                                                                         *)
(* A step of the model is one run-to-completion piece of the program: an   *)
(* event handler up to its next await (or its end), together with the      *)
(* re-render and the effects that its state changes schedule.  The backend *)
(* answers every request with data or with an error, at any later time.    *)
(***************************************************************************)
EXTENDS Integers, Sequences, FiniteSets, TLC

VARIABLES
    \* ---- InventoryTable / MovementMenu (DashboardPage.tsx, second file) ----
    filter,     \* InventoryTable: the current (type, clientId, search, category)
    rows,       \* InventoryTable: the displayed rows
    inflight,   \* InventoryTable: load() calls awaiting their answer
    loadEnd,    \* what the load() that ended in the last step did
    open,       \* MovementMenu: which dialog is open
    pc,         \* submit(): where each invocation stands
    cur,        \* submit(): the values each invocation captured
    trace,      \* submit(): what each running invocation did so far, in order
    done,       \* submit(): what the invocation that ended in the last step did, in order
    call,       \* submit(): the values the call of the last step saw, if it was one
    stock,      \* backend: the quantity on hand of the source item, if known
    \* ---- App (App.tsx and its route-persisting version, part_003) ----
    appVer,     \* which App this is: "plain" (App.tsx) or "persist" (part_003)
    route,      \* App: route state
    session,    \* App: session state (the signed-in user, or "null")
    authReady,  \* App: authReady state
    userRole,   \* App: userRole state
    storage,    \* localStorage: what is stored under app_route
    backend,    \* auth client: the user whose session it holds, or "null"
    initPc,     \* init-auth effect: awaiting getSessionWithTimeout, or done
    mountLogin, \* init-auth effect: its closure saw route.name === "login"
    roleReqs,   \* loadRole calls awaiting their answer (by user id)
    soPc,       \* Topbar sign-out handler: idle or awaiting onSignOut
    view,       \* what App renders
    lastEv,     \* the auth-state event handled in the last step, if any, or
                \* "signOutEnd" when the sign-out handler ended in it
    hist,       \* the last reload: the route restored, the user, and whether
                \* the user or the auth client navigated since
    \* ---- OrderEditor (OrderEditor.tsx, second file) ----
    isAdmin,    \* prop
    orderId,    \* prop: NoId for a new order
    items,      \* state
    products,   \* state
    variants,   \* state
    loading,    \* state
    originalItemIds, \* state
    load,       \* the load effect's runs: position, captured isAdmin, local catRows
    lastLoad,   \* what the load that set the items in the last step read and set
    savePc,     \* save(): where it stands
    saveCl,     \* save(): the values it captured, its id and the steps it has done
    sent,       \* what the last step of save() sent
    saving,     \* useState saving
    saveEnd,    \* how save() ended, if the last step ended one
    e1,         \* the last load to end stopped at the error of the orders select
    db,         \* backend: the orders rows and the order_items of the order
    \* ---- DashboardPage (DashboardPage.tsx, first file) and ClientPage ----
    dashIsAdmin,     \* DashboardPage: isAdmin state
    clients,         \* DashboardPage: clients state (the ids shown)
    canDeleteOrders, \* ClientPage: canDeleteOrders state
    orders,          \* ClientPage: orders state (the ids shown)
    roleRpc,         \* the page's role check: awaited, or what it answered
    pageLoads,       \* the page's load() calls awaiting their answer
    delReqs,         \* delete requests awaiting their answer (by id)
    lastDel          \* what the del / deleteOrder call of the last step did

invVars == <<filter, rows, inflight, loadEnd, open, pc, cur, trace, done, call, stock>>

appVars == <<appVer, route, session, authReady, userRole, storage, backend, initPc,
             mountLogin, roleReqs, soPc, view, lastEv, hist>>

ordVars == <<isAdmin, orderId, items, products, variants, loading, originalItemIds,
            load, lastLoad, savePc, saveCl, sent, saving, saveEnd, e1, db>>

delVars == <<dashIsAdmin, clients, canDeleteOrders, orders, roleRpc, pageLoads, delReqs, lastDel>>

vars == <<invVars, appVars, ordVars, delVars>>

otherThanInv == <<appVars, ordVars, delVars>>
otherThanApp == <<invVars, ordVars, delVars>>
otherThanOrd == <<invVars, appVars, delVars>>
otherThanDel == <<invVars, appVars, ordVars>>

----
\* Bounds of the model.
MaxQty == 2
\* The most rows a catalog answer has.
MaxCat == 2
\* The most items the editor's list gets through addItem.
MaxItems == 2
\* The orders rows one editor is followed through.
MaxOrders == 2
\* The most load() calls of a page awaiting their answer at once.
MaxLoads == 2

----
(***************************************************************************)
(* InventoryTable and MovementMenu                                         *)
(***************************************************************************)
Src == "src"
Dst == "dst"
Items == {Src, Dst}

\* Two queries that both show the source item, and the client table with no
\* client selected.
NoClient == "noClient"
Filters == {"fa", "fb", NoClient}

Procs == {1, 2}
\* The produced-quantity field: blank, a number, or text that is no number.
Num(n) == [k |-> "num", v |-> n]
Blank == [k |-> "blank", v |-> 0]
NaN == [k |-> "nan", v |-> 0]
NoItem == "none"
NoRows == [f |-> "none", qty |-> 0, shown |-> FALSE]
NoLoad == [ended |-> FALSE, err |-> FALSE, alert |-> FALSE]
NoCur == [qty |-> 0, prod |-> 0, to |-> NoItem, f |-> "none"]
NoCall == [kind |-> "none", qty |-> 0, prod |-> Blank, to |-> NoItem, avail |-> 0]

Ev(e, item, mv, qty, from) ==
    [e |-> e, item |-> item, mv |-> mv, qty |-> qty, from |-> from]
Req(item, mv, qty, from) == Ev("req", item, mv, qty, from)
Ok == Ev("ok", "-", "-", 0, "-")
Err == Ev("err", "-", "-", 0, "-")
Alert == Ev("alert", "-", "-", 0, "-")
Close == Ev("close", "-", "-", 0, "-")
Reload == Ev("reload", "-", "-", 0, "-")
Return == Ev("return", "-", "-", 0, "-")

\* What a stored movement adds to the quantity on hand of item.
Delta(r, item) ==
    (IF r.item = item THEN (IF r.mv = "out" THEN 0 - r.qty ELSE r.qty) ELSE 0)
    + (IF r.mv = "transfer" /\ r.from = item THEN 0 - r.qty ELSE 0)

\* The backend's quantity on hand of the source item.  Other clients write
\* movements of the same item too, and then the quantity is not a function of
\* this table's requests: known is FALSE and a load can show any quantity.
\* Where this table is the only writer, v is the quantity.
AnyStock == [known |-> FALSE, v |-> 0]
StockRange == (0 - MaxQty) .. MaxQty

\* The source's quantity on hand after the request ev was answered.
Stored(st, ev, ok) ==
    IF ok /\ st.known THEN [st EXCEPT !.v = @ + Delta(ev, Src)] ELSE st

\* load(): the synchronous part (lines 200-216).
LoadStart(f) ==
    IF f = NoClient
    THEN /\ rows' = NoRows
         /\ inflight' = inflight
    ELSE /\ rows' = rows
         /\ inflight' = inflight \cup {f}

\* The table right after it mounted (the mount effect called load); the App
\* shell is not part of this specification.
InvInit ==
    /\ filter = "fa"
    /\ rows = NoRows
    /\ inflight = {"fa"}
    /\ loadEnd = NoLoad
    /\ open = "none"
    /\ pc = [p \in Procs |-> "idle"]
    /\ cur = [p \in Procs |-> NoCur]
    /\ trace = [p \in Procs |-> <<>>]
    /\ done = <<>>
    /\ call = NoCall
    /\ stock = AnyStock
    /\ appVer = "plain" /\ route = [name |-> "login", id |-> "undef", clientId |-> "undef", fromClientId |-> "undef"]
    /\ session = "null" /\ authReady = FALSE /\ userRole = "editor" /\ storage = {<<"absent", "absent">>}
    /\ backend = "null" /\ initPc = "getSession" /\ mountLogin = TRUE /\ roleReqs = {}
    /\ soPc = "idle" /\ view = "init" /\ lastEv = "none"
    /\ hist = [route |-> [name |-> "login", id |-> "undef", clientId |-> "undef", fromClientId |-> "undef"],
               user |-> "null", touched |-> TRUE]
    /\ isAdmin = FALSE /\ orderId = 0 /\ items = <<>> /\ products = <<>> /\ variants = <<>>
    /\ loading = TRUE /\ originalItemIds = {}
    /\ load = [p \in {1, 2} |-> [pc |-> "idle", admin |-> FALSE, cat |-> <<>>]]
    /\ lastLoad = [ended |-> FALSE, cat |-> <<>>, its |-> <<>>]
    /\ savePc = "idle" /\ saveCl = [admin |-> FALSE, items |-> <<>>, originals |-> {}, id |-> 0, log |-> <<>>]
    /\ sent = <<>> /\ saving = FALSE /\ e1 = FALSE
    /\ db = [created |-> 0, applied |-> {}, items |-> <<>>, next |-> 1]
    /\ saveEnd = [out |-> "none", cl |-> [admin |-> FALSE, items |-> <<>>, originals |-> {}, id |-> 0, log |-> <<>>],
                  db |-> [created |-> 0, applied |-> {}, items |-> <<>>, next |-> 1]]
    /\ dashIsAdmin = FALSE /\ clients = {} /\ canDeleteOrders = FALSE /\ orders = {}
    /\ roleRpc = [adm |-> "await", edt |-> "await"] /\ pageLoads = 0 /\ delReqs = {}
    /\ lastDel = [who |-> "none", out |-> "none", confirmed |-> FALSE]

\* Number(prodQty), or qty when the field is blank (line 529).
FinalProdQty(qty, prod) == IF prod = Blank THEN Num(qty) ELSE prod

\* A check of the produced quantity that lets negative numbers through.
ValidProdQty_AnyNumber(fp) == fp.k = "num"

\* Number.isFinite(finalProdQty) && finalProdQty >= 0 (line 530).
ValidProdQty(fp) == fp.k = "num" /\ fp.v >= 0

\* What the produced-quantity field can hold.
ProdInputs == {Blank, NaN} \cup {Num(n) : n \in -1 .. MaxQty}

\* A submit that takes the two-insert path for every transfer.
FirstRequest_AlwaysConverts(kind, qty, fp, to) ==
    IF kind = "transfer" THEN Req(Src, "out", qty, "-")
    ELSE Req(Src, kind, qty, "-")

\* The first request of a submit that passed validation (lines 533-574).
FirstRequest(kind, qty, fp, to) ==
    IF kind = "transfer"
    THEN IF fp = Num(qty) THEN Req(to, "transfer", qty, Src)
         ELSE Req(Src, "out", qty, "-")
    ELSE Req(Src, kind, qty, "-")

\* The destination insert of a transfer with conversion (lines 551-556).
DestinationInsert(c) == Req(c.to, "in", c.prod, "-")

\* A compensating insert that gives back the produced instead of the consumed
\* quantity.
CompensatingInsert_Produced(c) == Req(Src, "in", c.prod, "-")

\* The compensating insert (lines 558-563).
CompensatingInsert(c) == Req(Src, "in", c.qty, "-")

\* What the handler does after all its requests succeeded (lines 577-578).
OnSuccess == <<Close, Reload>>

\* What the handler does after the destination insert failed and the
\* compensating insert was answered (line 564).
OnDestinationError == <<Alert>>

\* The handler's end with the events evs: the dialog closes and load() runs
\* when they say so.
End(p, evs) ==
    /\ done' = trace[p] \o evs
    /\ trace' = [trace EXCEPT ![p] = <<>>]
    /\ pc' = [pc EXCEPT ![p] = "idle"]
    /\ cur' = [cur EXCEPT ![p] = NoCur]
    /\ open' = IF \E i \in 1 .. Len(evs) : evs[i] = Close THEN "none" ELSE open
    /\ IF \E i \in 1 .. Len(evs) : evs[i] = Reload
       THEN LoadStart(cur[p].f)
       ELSE UNCHANGED <<rows, inflight>>

\* The handler goes on to its next await, having done evs.
Continue(p, evs, next) ==
    /\ trace' = [trace EXCEPT ![p] = @ \o evs]
    /\ pc' = [pc EXCEPT ![p] = next]
    /\ done' = <<>>
    /\ UNCHANGED <<open, rows, inflight, cur>>

\* submit(kind), up to its first await (lines 520-574).  The destination and
\* the produced quantity exist in the transfer dialog only (lines 606-629).
\* Invocations are interchangeable: a new one takes the lowest free slot.
Submit(p, kind, qty, prod, to) ==
    /\ UNCHANGED otherThanInv
    /\ stock' = stock
    /\ call' = [kind |-> kind, qty |-> qty, prod |-> prod, to |-> to, avail |-> rows.qty]
    /\ pc[p] = "idle"
    /\ \A q \in Procs : q < p => pc[q] # "idle"
    /\ open = kind
    /\ kind # "none"
    /\ kind # "transfer" => prod = Blank /\ to = NoItem
    /\ rows.shown
    /\ loadEnd' = NoLoad
    /\ UNCHANGED <<filter, rows, inflight, open>>
    /\ LET fp == FinalProdQty(qty, prod) IN
       IF qty <= 0
       THEN /\ done' = <<Return>>
            /\ UNCHANGED <<pc, cur, trace>>
       ELSE IF kind = "transfer" /\ (to = NoItem \/ qty > rows.qty \/ ~ValidProdQty(fp))
       THEN /\ done' = <<Alert>>
            /\ UNCHANGED <<pc, cur, trace>>
       ELSE /\ trace' = [trace EXCEPT ![p] = <<FirstRequest(kind, qty, fp, to)>>]
            /\ cur' = [cur EXCEPT ![p] =
                         [qty |-> qty, prod |-> fp.v, to |-> to, f |-> filter]]
            /\ done' = <<>>
            /\ pc' = [pc EXCEPT ![p] =
                        IF kind # "transfer" THEN "await_single"
                        ELSE IF fp = Num(qty) THEN "await_transfer" ELSE "await_out"]

\* The answer to the only insert of an in, an out or a plain transfer
\* (lines 534-541 and 568-578).
SingleAnswer(p, ok) ==
    /\ UNCHANGED otherThanInv
    /\ call' = NoCall
    /\ pc[p] \in {"await_single", "await_transfer"}
    /\ stock' = Stored(stock, trace[p][Len(trace[p])], ok)
    /\ stock'.v \in StockRange
    /\ UNCHANGED filter
    /\ loadEnd' = NoLoad
    /\ IF ok
       THEN End(p, <<Ok>> \o OnSuccess)
       ELSE End(p, <<Err, Alert>>)

\* The answer to the 'out' insert of a transfer with conversion (lines 543-556).
OutAnswer(p, ok) ==
    /\ UNCHANGED otherThanInv
    /\ call' = NoCall
    /\ pc[p] = "await_out"
    /\ stock' = Stored(stock, trace[p][Len(trace[p])], ok)
    /\ stock'.v \in StockRange
    /\ UNCHANGED filter
    /\ loadEnd' = NoLoad
    /\ IF ok
       THEN Continue(p, <<Ok, DestinationInsert(cur[p])>>, "await_in")
       ELSE End(p, <<Err, Alert>>)

\* The answer to the destination 'in' insert (lines 557-563 and 577-578).
InAnswer(p, ok) ==
    /\ UNCHANGED otherThanInv
    /\ call' = NoCall
    /\ pc[p] = "await_in"
    /\ stock' = Stored(stock, trace[p][Len(trace[p])], ok)
    /\ stock'.v \in StockRange
    /\ UNCHANGED filter
    /\ loadEnd' = NoLoad
    /\ IF ok
       THEN End(p, <<Ok>> \o OnSuccess)
       ELSE Continue(p, <<Err, CompensatingInsert(cur[p])>>, "await_comp")

\* The answer to the compensating insert: its result is not looked at, and
\* the destination error is reported (lines 558-564).
CompAnswer(p, ok) ==
    /\ UNCHANGED otherThanInv
    /\ call' = NoCall
    /\ pc[p] = "await_comp"
    /\ stock' = Stored(stock, trace[p][Len(trace[p])], ok)
    /\ stock'.v \in StockRange
    /\ UNCHANGED filter
    /\ loadEnd' = NoLoad
    /\ End(p, <<IF ok THEN Ok ELSE Err>> \o OnDestinationError)

\* The IN / OUT / Transfer buttons and Cancel (lines 586-588, 639).
OpenDialog(kind) ==
    /\ UNCHANGED otherThanInv
    /\ call' = NoCall
    /\ stock' = stock
    /\ rows.shown
    /\ open # kind
    /\ open' = kind
    /\ loadEnd' = NoLoad
    /\ done' = <<>>
    /\ UNCHANGED <<filter, rows, inflight, pc, cur, trace>>

\* A change of the search box, the category filter or the selected client,
\* and the effect that reloads (lines 243-246).
SetFilter(f) ==
    /\ UNCHANGED otherThanInv
    /\ call' = NoCall
    /\ stock' = stock
    /\ f # filter
    /\ filter' = f
    /\ LoadStart(f)
    /\ loadEnd' = NoLoad
    /\ done' = <<>>
    /\ UNCHANGED <<open, pc, cur, trace>>

\* load() after its await, with rows: the source item has q on hand
\* (lines 216-240).
LoadOk(f, q) ==
    /\ UNCHANGED otherThanInv
    /\ call' = NoCall
    /\ stock' = stock
    /\ f \in inflight
    /\ inflight' = inflight \ {f}
    /\ rows' = [f |-> f, qty |-> q, shown |-> TRUE]
    /\ loadEnd' = [ended |-> TRUE, err |-> FALSE, alert |-> FALSE]
    /\ done' = <<>>
    /\ UNCHANGED <<filter, open, pc, cur, trace>>

\* load() after its await, with an error: if (error) return (line 217).
LoadErr(f) ==
    /\ UNCHANGED otherThanInv
    /\ call' = NoCall
    /\ stock' = stock
    /\ f \in inflight
    /\ inflight' = inflight \ {f}
    /\ loadEnd' = [ended |-> TRUE, err |-> TRUE, alert |-> FALSE]
    /\ done' = <<>>
    /\ UNCHANGED <<filter, rows, open, pc, cur, trace>>

InvNext ==
    \/ \E p \in Procs, kind \in {"in", "out", "transfer"}, qty \in -1 .. MaxQty,
          prod \in ProdInputs, to \in {NoItem, Dst} : Submit(p, kind, qty, prod, to)
    \/ \E p \in Procs, ok \in BOOLEAN : SingleAnswer(p, ok)
    \/ \E p \in Procs, ok \in BOOLEAN : OutAnswer(p, ok)
    \/ \E p \in Procs, ok \in BOOLEAN : InAnswer(p, ok)
    \/ \E p \in Procs, ok \in BOOLEAN : CompAnswer(p, ok)
    \/ \E kind \in {"none", "in", "out", "transfer"} : OpenDialog(kind)
    \/ \E f \in Filters, q \in 0 .. MaxQty : LoadOk(f, q)
    \/ \E f \in Filters : LoadErr(f)

SpecInv == InvInit /\ [][InvNext]_vars

\* The table with its toolbar in use: the search box, the category filter
\* and the client select change the filter while loads are in flight, and the
\* IN dialog of a row is used, whose success reloads the table.
FilterNext ==
    \/ \E f \in Filters : SetFilter(f)
    \/ \E f \in Filters, q \in 0 .. MaxQty : LoadOk(f, q)
    \/ \E f \in Filters : LoadErr(f)
    \/ \E kind \in {"none", "in"} : OpenDialog(kind)
    \/ \E p \in Procs, qty \in 0 .. 1 : Submit(p, "in", qty, Blank, NoItem)
    \/ \E p \in Procs, ok \in BOOLEAN : SingleAnswer(p, ok)

SpecFilter == InvInit /\ [][FilterNext]_vars

\* The table of one client whose movements nobody else writes: the source
\* item starts with a quantity on hand, every load shows the backend's
\* quantity, and the only dialog used is Transfer.
StockInit ==
    /\ filter = "fa"
    /\ rows = NoRows
    /\ inflight = {"fa"}
    /\ loadEnd = NoLoad
    /\ open = "none"
    /\ pc = [p \in Procs |-> "idle"]
    /\ cur = [p \in Procs |-> NoCur]
    /\ trace = [p \in Procs |-> <<>>]
    /\ done = <<>>
    /\ call = NoCall
    /\ stock \in [known : {TRUE}, v : 1 .. MaxQty]
    /\ appVer = "plain" /\ route = [name |-> "login", id |-> "undef", clientId |-> "undef", fromClientId |-> "undef"]
    /\ session = "null" /\ authReady = FALSE /\ userRole = "editor" /\ storage = {<<"absent", "absent">>}
    /\ backend = "null" /\ initPc = "getSession" /\ mountLogin = TRUE /\ roleReqs = {}
    /\ soPc = "idle" /\ view = "init" /\ lastEv = "none"
    /\ hist = [route |-> [name |-> "login", id |-> "undef", clientId |-> "undef", fromClientId |-> "undef"],
               user |-> "null", touched |-> TRUE]
    /\ isAdmin = FALSE /\ orderId = 0 /\ items = <<>> /\ products = <<>> /\ variants = <<>>
    /\ loading = TRUE /\ originalItemIds = {}
    /\ load = [p \in {1, 2} |-> [pc |-> "idle", admin |-> FALSE, cat |-> <<>>]]
    /\ lastLoad = [ended |-> FALSE, cat |-> <<>>, its |-> <<>>]
    /\ savePc = "idle" /\ saveCl = [admin |-> FALSE, items |-> <<>>, originals |-> {}, id |-> 0, log |-> <<>>]
    /\ sent = <<>> /\ saving = FALSE /\ e1 = FALSE
    /\ db = [created |-> 0, applied |-> {}, items |-> <<>>, next |-> 1]
    /\ saveEnd = [out |-> "none", cl |-> [admin |-> FALSE, items |-> <<>>, originals |-> {}, id |-> 0, log |-> <<>>],
                  db |-> [created |-> 0, applied |-> {}, items |-> <<>>, next |-> 1]]
    /\ dashIsAdmin = FALSE /\ clients = {} /\ canDeleteOrders = FALSE /\ orders = {}
    /\ roleRpc = [adm |-> "await", edt |-> "await"] /\ pageLoads = 0 /\ delReqs = {}
    /\ lastDel = [who |-> "none", out |-> "none", confirmed |-> FALSE]

StockNext ==
    \/ \E p \in Procs, qty \in -1 .. MaxQty, prod \in ProdInputs, to \in {NoItem, Dst} :
          Submit(p, "transfer", qty, prod, to)
    \/ \E p \in Procs, ok \in BOOLEAN : SingleAnswer(p, ok)
    \/ \E p \in Procs, ok \in BOOLEAN : OutAnswer(p, ok)
    \/ \E p \in Procs, ok \in BOOLEAN : InAnswer(p, ok)
    \/ \E p \in Procs, ok \in BOOLEAN : CompAnswer(p, ok)
    \/ \E kind \in {"none", "transfer"} : OpenDialog(kind)
    \/ \E f \in Filters : LoadOk(f, stock.v)
    \/ \E f \in Filters : LoadErr(f)

SpecStock == StockInit /\ [][StockNext]_vars


----
(***************************************************************************)
(* App: session, role and route                                            *)
(***************************************************************************)
U == "undef"
Null == "null"
\* One admin and one editor account (profiles.role).
Users == {"ua", "ue"}
ProfileRole(u) == IF u = "ua" THEN "admin" ELSE "editor"

R(name, id, clientId, fromClientId) ==
    [name |-> name, id |-> id, clientId |-> clientId, fromClientId |-> fromClientId]
Login == R("login", U, U, U)
Dashboard == R("dashboard", U, U, U)
Client(c) == R("client", c, U, U)
Order(o, c) == R("order", o, c, U)
Products(c, from) == R("products", U, c, from)
Inventory == R("inventory", U, U, U)
InventoryRaw == R("inventory_raw", U, U, U)

Keys == {"name", "id", "clientId", "fromClientId"}
\* localStorage.getItem gave null, or a string JSON.parse throws on.
Absent == {<<"absent", "absent">>}
Garbage == {<<"garbage", "garbage">>}

\* A serialisation that writes null for a property that is undefined.
Stringify_NullForUndefined(r) == {<<k, IF r[k] = U THEN "null" ELSE r[k]>> : k \in Keys}

\* JSON.stringify(r): the properties that are undefined are left out.
Stringify(r) == {<<k, r[k]>> : k \in {k \in Keys : r[k] # U}}

\* JSON.parse(raw) read as a route: a property that is not there reads undefined.
Parse(raw) ==
    [k \in Keys |-> IF \E v \in {kv[2] : kv \in raw} : <<k, v>> \in raw
                    THEN CHOOSE v \in {kv[2] : kv \in raw} : <<k, v>> \in raw
                    ELSE U]

\* loadRoute (part_003 32-39).
loadRoute(st) == IF st = Absent \/ st = Garbage THEN Login ELSE Parse(st)

\* saveRoute (part_003 40-44).
saveRoute(r) == Stringify(r)

\* The route the role-flip effect moves to (part_003 154-159, App.tsx 111-112).
Bounce(r) == IF r.fromClientId # U THEN Client(r.fromClientId) ELSE Dashboard

\* A role-flip effect whose dependency list holds route.name only.
RoleFlip_NameDepOnly(r, role, oldName, oldRole, mount) ==
    IF /\ mount \/ r.name # oldName
       /\ r.name = "products"
       /\ role # "admin"
    THEN Bounce(r)
    ELSE r

\* The role-flip effect runs when isAdmin or route.name changed, and on mount
\* (part_003 152-162, App.tsx 109-114).
RoleFlip(r, role, oldName, oldRole, mount) ==
    IF /\ mount \/ r.name # oldName \/ (role = "admin") # (oldRole = "admin")
       /\ r.name = "products"
       /\ role # "admin"
    THEN Bounce(r)
    ELSE r

\* A render that looks at the route only, not at the session.
Render_RouteOnly(ready, s, r) ==
    IF ~ready THEN "init"
    ELSE IF r.name = "login" THEN "LoginPage"
    ELSE r.name

\* What App renders (part_003 164-266, App.tsx 116-189).
Render(ready, s, r) ==
    IF ~ready THEN "init"
    ELSE IF s = Null \/ r.name = "login" THEN "LoginPage"
    ELSE r.name

\* The state after a handler set the route to r (routeSet) and the role to
\* role, and the effects ran: the role-flip effect, and in the persisting App
\* the effect that saves the route whenever it was set (part_003 58-60).
Commit(r, routeSet, role, s, ready, mount) ==
    LET fin == RoleFlip(r, role, route.name, userRole, mount) IN
    /\ route' = fin
    /\ userRole' = role
    /\ session' = s
    /\ authReady' = ready
    /\ storage' = IF appVer = "persist" /\ (routeSet \/ mount \/ fin # r)
                  THEN saveRoute(fin)
                  ELSE storage
    /\ view' = Render(ready, s, fin)

\* go (part_003 143-149, App.tsx 100-106).
go(next, role) ==
    IF next.name = "products" /\ role # "admin" THEN Dashboard
    ELSE IF next.name = "products" /\ next.clientId = U THEN Dashboard
    ELSE next

\* The routes the rendered page can ask go for (part_003 178-264,
\* App.tsx 130-187).
GoTargets(v, r) ==
    IF v \in {"init", "LoginPage"} THEN {}
    ELSE {Dashboard}
         \cup (IF appVer = "persist" THEN {Inventory} ELSE {})
         \cup (IF v = "dashboard" THEN {Client("c1")} ELSE {})
         \cup (IF v = "client"
               THEN {Order(U, r.id), Order("o1", r.id), Products(r.id, r.id)}
               ELSE {})
         \cup (IF v = "order" THEN {Client(r.clientId)} ELSE {})
         \cup (IF v = "products" THEN {Bounce(r)} ELSE {})
         \cup (IF v = "inventory" THEN {InventoryRaw} ELSE {})

\* Every route a page asks for.
Routes == UNION {GoTargets(v, r) : v \in {"dashboard", "client", "order", "products", "inventory"},
                                   r \in {Client("c1"), Order("o1", "c1"), Products("c1", "c1"), Products("c1", U)}}

NoHist == [route |-> Login, user |-> Null, touched |-> TRUE]

\* loadRole(userId) is called: its query is in flight (part_003 63-68).
loadRole(u) == roleReqs \cup {u}

\* The route SIGNED_IN and the init effect restore (part_003 99-100, 128-129).
Restored(st) == IF loadRoute(st).name = "login" THEN Dashboard ELSE loadRoute(st)

\* An init-auth effect whose catch block leaves authReady as it is.
InitAnswer_CatchNotReady(outcome) ==
    /\ initPc = "getSession"
    /\ initPc' = IF outcome = "session" /\ backend # Null THEN "done" ELSE "noSession"
    /\ lastEv' = "none"
    /\ UNCHANGED <<appVer, backend, mountLogin, soPc, hist>>
    /\ LET s == IF outcome = "session" THEN backend ELSE Null IN
       IF s = Null
       THEN /\ Commit(Login, TRUE, "editor", Null, outcome # "reject", FALSE)
            /\ roleReqs' = roleReqs
       ELSE /\ roleReqs' = loadRole(s)
            /\ IF appVer = "plain"
               THEN Commit(Dashboard, TRUE, userRole, s, TRUE, FALSE)
               ELSE IF mountLogin
               THEN Commit(Restored(storage), TRUE, userRole, s, TRUE, FALSE)
               ELSE Commit(route, FALSE, userRole, s, TRUE, FALSE)
    /\ UNCHANGED otherThanApp

\* The init-auth effect after getSessionWithTimeout settled (part_003 86-115,
\* App.tsx 55-79): with the session the auth client holds, with no session
\* because the 2500 ms timer won, or with a rejection.
InitAnswer(outcome) ==
    /\ initPc = "getSession"
    /\ initPc' = IF outcome = "session" /\ backend # Null THEN "done" ELSE "noSession"
    /\ lastEv' = "none"
    /\ UNCHANGED <<appVer, backend, mountLogin, soPc, hist>>
    /\ LET s == IF outcome = "session" THEN backend ELSE Null IN
       IF s = Null
       THEN /\ Commit(Login, TRUE, "editor", Null, TRUE, FALSE)
            /\ roleReqs' = roleReqs
       ELSE /\ roleReqs' = loadRole(s)
            /\ IF appVer = "plain"
               THEN Commit(Dashboard, TRUE, userRole, s, TRUE, FALSE)
               ELSE IF mountLogin
               THEN Commit(Restored(storage), TRUE, userRole, s, TRUE, FALSE)
               ELSE Commit(route, FALSE, userRole, s, TRUE, FALSE)
    /\ UNCHANGED otherThanApp

\* A handler that restores the route and looks the role up on every event.
PersistOnAuthEvent_AnyEvent(ev, s) ==
    IF s = Null
    THEN /\ Commit(Login, TRUE, "editor", s, authReady, FALSE)
         /\ roleReqs' = roleReqs
    ELSE /\ Commit(Restored(storage), TRUE, userRole, s, authReady, FALSE)
         /\ roleReqs' = loadRole(s)

\* The onAuthStateChange handler of the persisting App (part_003 117-133).
PersistOnAuthEvent(ev, s) ==
    IF ev = "SIGNED_OUT"
    THEN /\ Commit(Login, TRUE, "editor", s, authReady, FALSE)
         /\ roleReqs' = roleReqs
    ELSE IF ev = "SIGNED_IN"
    THEN /\ Commit(Restored(storage), TRUE, userRole, s, authReady, FALSE)
         /\ roleReqs' = IF s # Null THEN loadRole(s) ELSE roleReqs
    ELSE /\ Commit(route, FALSE, userRole, s, authReady, FALSE)
         /\ roleReqs' = roleReqs

\* The onAuthStateChange handler of the plain App (App.tsx 81-91).
PlainOnAuthEvent(ev, s) ==
    IF s # Null
    THEN /\ Commit(Dashboard, TRUE, userRole, s, authReady, FALSE)
         /\ roleReqs' = loadRole(s)
    ELSE /\ Commit(Login, TRUE, "editor", s, authReady, FALSE)
         /\ roleReqs' = roleReqs

Events == {"SIGNED_IN", "SIGNED_OUT", "TOKEN_REFRESHED", "USER_UPDATED", "INITIAL_SESSION"}

\* The auth client tells its subscriber about the session it holds.
AuthEvent(ev) ==
    /\ ev = "SIGNED_OUT" => backend = Null
    /\ ev \in {"SIGNED_IN", "TOKEN_REFRESHED", "USER_UPDATED"} => backend # Null
    /\ IF appVer = "persist"
       THEN PersistOnAuthEvent(ev, backend)
       ELSE PlainOnAuthEvent(ev, backend)
    /\ lastEv' = ev
    /\ hist' = [hist EXCEPT !.touched = @ \/ ev \in {"SIGNED_IN", "SIGNED_OUT"}]
    /\ UNCHANGED <<appVer, backend, initPc, mountLogin, soPc>>
    /\ UNCHANGED otherThanApp

\* loadRole after its await (part_003 69-70, App.tsx 38-39).
RoleAnswer(u, ok) ==
    /\ u \in roleReqs
    /\ roleReqs' = roleReqs \ {u}
    /\ Commit(route, FALSE, IF ok THEN ProfileRole(u) ELSE "editor", session, authReady, FALSE)
    /\ lastEv' = "none"
    /\ UNCHANGED <<appVer, backend, initPc, mountLogin, soPc, hist>>
    /\ UNCHANGED otherThanApp

\* A page or the Topbar calls go(next).
Go(next) ==
    /\ next \in GoTargets(view, route)
    /\ Commit(go(next, userRole), TRUE, userRole, session, authReady, FALSE)
    /\ lastEv' = "none"
    /\ hist' = [hist EXCEPT !.touched = TRUE]
    /\ UNCHANGED <<appVer, backend, initPc, mountLogin, roleReqs, soPc>>
    /\ UNCHANGED otherThanApp

\* LoginPage.submit: signInWithPassword succeeded for user u (part_001 10-18);
\* the App hears of it through onAuthStateChange.
LoginSubmit(u) ==
    /\ view = "LoginPage"
    /\ backend # u
    /\ backend' = u
    /\ lastEv' = "none"
    /\ hist' = [hist EXCEPT !.touched = TRUE]
    /\ UNCHANGED <<appVer, route, session, authReady, userRole, storage, initPc,
                   mountLogin, roleReqs, soPc, view>>
    /\ UNCHANGED otherThanApp

\* The backend ends the session (expiry, revocation).
SessionExpires ==
    /\ backend # Null
    /\ backend' = Null
    /\ lastEv' = "none"
    /\ UNCHANGED <<appVer, route, session, authReady, userRole, storage, initPc,
                   mountLogin, roleReqs, soPc, view, hist>>
    /\ UNCHANGED otherThanApp

\* The Topbar's sign-out button, up to its await (part_003 311-314,
\* App.tsx 212-215).
SignOutClick ==
    /\ view \notin {"init", "LoginPage"}
    /\ soPc = "idle"
    /\ soPc' = "await"
    /\ lastEv' = "none"
    /\ hist' = [hist EXCEPT !.touched = TRUE]
    /\ UNCHANGED <<appVer, route, session, authReady, userRole, storage, backend,
                   initPc, mountLogin, roleReqs, view>>
    /\ UNCHANGED otherThanApp

\* An onSignOut that clears the local state only after signOut resolved.
SignOutAnswer_ClearOnSuccess(ok) ==
    /\ soPc = "await"
    /\ soPc' = "idle"
    /\ backend' = IF ok THEN Null ELSE backend
    /\ IF ok THEN Commit(Login, TRUE, "editor", Null, authReady, FALSE)
             ELSE Commit(route, FALSE, userRole, session, authReady, FALSE)
    /\ lastEv' = "signOutEnd"
    /\ UNCHANGED <<appVer, initPc, mountLogin, roleReqs, hist>>
    /\ UNCHANGED otherThanApp

\* onSignOut after signOut({scope: "local"}) resolved or threw, and the
\* Topbar handler's finally (part_003 182-191 and 315-317, App.tsx 131-140).
SignOutAnswer(ok) ==
    /\ soPc = "await"
    /\ soPc' = "idle"
    /\ backend' = IF ok THEN Null ELSE backend
    /\ Commit(Login, TRUE, "editor", Null, authReady, FALSE)
    /\ lastEv' = "signOutEnd"
    /\ UNCHANGED <<appVer, initPc, mountLogin, roleReqs, hist>>
    /\ UNCHANGED otherThanApp

\* The tab is reloaded: a new App mounts (part_003 47-60, 83-140, 152-162;
\* App.tsx 21-27, 52-97, 109-114).  Requests of the old page are gone.
PageReload ==
    /\ LET r0 == IF appVer = "persist" THEN loadRoute(storage) ELSE Login IN
       /\ Commit(r0, FALSE, "editor", Null, FALSE, TRUE)
       /\ mountLogin' = (r0.name = "login")
       /\ hist' = [route |-> r0, user |-> session, touched |-> FALSE]
    /\ initPc' = "getSession"
    /\ roleReqs' = {}
    /\ soPc' = "idle"
    /\ lastEv' = "none"
    /\ UNCHANGED <<appVer, backend>>
    /\ UNCHANGED otherThanApp

\* The user clears the site's data: the stored route and the stored session.
StorageCleared ==
    /\ appVer = "persist"
    /\ storage # Absent
    /\ storage' = Absent
    /\ backend' = Null
    /\ lastEv' = "none"
    /\ UNCHANGED <<appVer, route, session, authReady, userRole, initPc, mountLogin,
                   roleReqs, soPc, view, hist>>
    /\ UNCHANGED otherThanApp

\* The App right after it mounted with nothing stored (the first render and
\* the mount effects); the other components are not on screen.
AppInit ==
    /\ appVer \in {"plain", "persist"}
    /\ route = Login
    /\ session = Null
    /\ authReady = FALSE
    /\ userRole = "editor"
    /\ storage = IF appVer = "persist" THEN saveRoute(Login) ELSE Absent
    /\ backend \in Users \cup {Null}
    /\ initPc = "getSession"
    /\ mountLogin = TRUE
    /\ roleReqs = {}
    /\ soPc = "idle"
    /\ view = "init"
    /\ lastEv = "none"
    /\ hist = NoHist
    /\ filter = "fa" /\ rows = NoRows /\ inflight = {} /\ loadEnd = NoLoad
    /\ open = "none" /\ pc = [p \in Procs |-> "idle"] /\ cur = [p \in Procs |-> NoCur]
    /\ trace = [p \in Procs |-> <<>>] /\ done = <<>> /\ call = NoCall /\ stock = AnyStock
    /\ isAdmin = FALSE /\ orderId = 0 /\ items = <<>> /\ products = <<>> /\ variants = <<>>
    /\ loading = TRUE /\ originalItemIds = {}
    /\ load = [p \in {1, 2} |-> [pc |-> "idle", admin |-> FALSE, cat |-> <<>>]]
    /\ lastLoad = [ended |-> FALSE, cat |-> <<>>, its |-> <<>>]
    /\ savePc = "idle" /\ saveCl = [admin |-> FALSE, items |-> <<>>, originals |-> {}, id |-> 0, log |-> <<>>]
    /\ sent = <<>> /\ saving = FALSE /\ e1 = FALSE
    /\ db = [created |-> 0, applied |-> {}, items |-> <<>>, next |-> 1]
    /\ saveEnd = [out |-> "none", cl |-> [admin |-> FALSE, items |-> <<>>, originals |-> {}, id |-> 0, log |-> <<>>],
                  db |-> [created |-> 0, applied |-> {}, items |-> <<>>, next |-> 1]]
    /\ dashIsAdmin = FALSE /\ clients = {} /\ canDeleteOrders = FALSE /\ orders = {}
    /\ roleRpc = [adm |-> "await", edt |-> "await"] /\ pageLoads = 0 /\ delReqs = {}
    /\ lastDel = [who |-> "none", out |-> "none", confirmed |-> FALSE]

AppNext ==
    \/ \E o \in {"session", "timeout", "reject"} : InitAnswer(o)
    \/ \E ev \in Events : AuthEvent(ev)
    \/ \E u \in Users, ok \in BOOLEAN : RoleAnswer(u, ok)
    \/ \E next \in Routes : Go(next)
    \/ \E u \in Users : LoginSubmit(u)
    \/ SessionExpires
    \/ SignOutClick
    \/ \E ok \in BOOLEAN : SignOutAnswer(ok)
    \/ PageReload
    \/ StorageCleared

SpecApp == AppInit /\ [][AppNext]_vars

\* What is pending in the App comes to its end: getSessionWithTimeout settles
\* (after 2500 ms at the latest), and the profiles query and signOut are
\* answered.  Nothing is assumed about the user or about auth events.
AppFairness ==
    /\ WF_vars(\E o \in {"session", "timeout", "reject"} : InitAnswer(o))
    /\ WF_vars(\E u \in Users, ok \in BOOLEAN : RoleAnswer(u, ok))
    /\ WF_vars(\E ok \in BOOLEAN : SignOutAnswer(ok))

SpecAppLive == AppInit /\ [][AppNext]_vars /\ AppFairness

----
(***************************************************************************)
(* OrderEditor: load effect                                                *)
(***************************************************************************)
\* product_id / variant_id / row_id undefined, orderId undefined.
NoId == 0
\* product_name / variation "".
NoName == 0
Pids == {1, 2}
PNames == {1, 2}
VNames == {1, 2}
Undefined == [k |-> "undefined", v |-> 0]
PNull == [k |-> "null", v |-> 0]
Wholesale == {Num(7)}

\* A row of client_catalog_for_admin / client_catalog_for_editor; the
\* variant_id of a row is its position (variant ids are unique).
CatRow == [product_id : Pids, product_name : PNames, variant_name : VNames,
           wholesale_price : Wholesale]

\* The answers of the catalog RPCs: a product has one name.
Catalogs ==
    {c \in UNION {[1..n -> CatRow] : n \in 0..MaxCat} :
        \A i, j \in 1..Len(c) :
            c[i].product_id = c[j].product_id => c[i].product_name = c[j].product_name}

\* The rows of order_items of the order (at most one here).
ItemRow == [id : {1}, product_name : PNames, variation : VNames, wholesale_price : Wholesale]
ItemRows == {<<>>} \cup {<<r>> : r \in ItemRow}

LoadIds == {1, 2}
NoLoadRun == [pc |-> "idle", admin |-> FALSE, cat |-> <<>>]
NoLastLoad == [ended |-> FALSE, cat |-> <<>>, its |-> <<>>]
NoSave == [admin |-> FALSE, items |-> <<>>, originals |-> {}, id |-> NoId, log |-> <<>>]
\* No orders row inserted and no request of save applied since the editor
\* mounted; the order has no items and the next order_items id is 1.
NoDb == [created |-> 0, applied |-> {}, items |-> <<>>, next |-> 1]
NoSaveEnd == [out |-> "none", cl |-> NoSave, db |-> NoDb]
\* The order_items the order can have when its editor opens.
StoredItems ==
    {st \in UNION {[1..n -> [id : 1..MaxItems, product_name : PNames, variation : {1},
                             wholesale_price : Wholesale]] : n \in 0..MaxItems} :
        \A i \in 1..Len(st) : st[i].id = i}

\* The item addItem appends and useState starts with (317-319, 462-466).
BlankItem(admin) ==
    [row_id |-> NoId, product_name |-> NoName, variation |-> NoName,
     wholesale_price |-> IF admin THEN Num(0) ELSE Undefined,
     product_id |-> NoId, variant_id |-> NoId]

\* prodMap: the first row of every product_id (356-365).
RECURSIVE ProdMap(_, _)
ProdMap(cat, seen) ==
    IF cat = <<>> THEN <<>>
    ELSE IF Head(cat).product_id \in seen THEN ProdMap(Tail(cat), seen)
    ELSE <<[id |-> Head(cat).product_id, name |-> Head(cat).product_name]>>
         \o ProdMap(Tail(cat), seen \cup {Head(cat).product_id})

\* Array.prototype.sort with localeCompare on the names: a stable sort.
RECURSIVE InsertByName(_, _)
InsertByName(x, s) ==
    IF s = <<>> THEN <<x>>
    ELSE IF x.name < Head(s).name THEN <<x>> \o s
    ELSE <<Head(s)>> \o InsertByName(x, Tail(s))

RECURSIVE SortByName(_)
SortByName(s) ==
    IF s = <<>> THEN <<>>
    ELSE InsertByName(s[Len(s)], SortByName(SubSeq(s, 1, Len(s) - 1)))

\* prods (375).
Prods(cat) == SortByName(ProdMap(cat, {}))

\* varList (366-372): wholesale_price only for an admin.
Vars(cat, admin) ==
    [i \in 1..Len(cat) |->
        [id |-> i, product_id |-> cat[i].product_id, name |-> cat[i].variant_name,
         wholesale_price |-> IF admin THEN cat[i].wholesale_price ELSE PNull]]

\* Array.prototype.find: the index of the first element that fits, 0 if none.
FindIdx(s, Fits(_)) ==
    IF \E i \in 1..Len(s) : Fits(s[i])
    THEN CHOOSE i \in 1..Len(s) : Fits(s[i]) /\ \A j \in 1..(i - 1) : ~Fits(s[j])
    ELSE 0

\* prod (437-439).
ProductMatch(prods, name) ==
    LET Fits(pp) == pp.name = name
        i == FindIdx(prods, Fits) IN
    IF i = 0 THEN NoId ELSE prods[i].id

\* A variant search over the variants of every product.
VariantMatch_AnyProduct(vs, pid, variation) ==
    LET Fits(vv) == vv.name = variation
        i == FindIdx(vs, Fits) IN
    IF pid = NoId \/ i = 0 THEN NoId ELSE vs[i].id

\* vlist and varMatch (441-442).
VariantMatch(vs, pid, variation) ==
    LET vlist == SelectSeq(vs, LAMBDA vv : pid # NoId /\ vv.product_id = pid)
        Fits(vv) == vv.name = variation
        i == FindIdx(vlist, Fits) IN
    IF i = 0 THEN NoId ELSE vlist[i].id

\* reconciled (436-455).
Reconcile(its, prods, vs, admin) ==
    [i \in 1..Len(its) |->
        LET pid == ProductMatch(prods, its[i].product_name) IN
        [row_id |-> its[i].id,
         product_name |-> its[i].product_name,
         variation |-> its[i].variation,
         wholesale_price |-> IF admin THEN its[i].wholesale_price ELSE Undefined,
         product_id |-> pid,
         variant_id |-> VariantMatch(vs, pid, its[i].variation)]]

\* The effect starts a run of the load (337-339): the lowest free slot.
StartLoad(l, admin) ==
    LET p == CHOOSE q \in LoadIds : l[q].pc = "idle" /\ \A r \in LoadIds : r < q => l[r].pc # "idle" IN
    [l EXCEPT ![p] = [pc |-> "catalog", admin |-> admin, cat |-> <<>>]]

\* The load after catRows is known (355-388).
AfterCatalog(p, catRows) ==
    /\ products' = Prods(catRows)
    /\ variants' = Vars(catRows, load[p].admin)
    /\ IF orderId = NoId
       THEN /\ originalItemIds' = {}
            /\ loading' = FALSE
            /\ e1' = FALSE
            /\ load' = [load EXCEPT ![p] = NoLoadRun]
       ELSE /\ load' = [load EXCEPT ![p] = [@ EXCEPT !.pc = "order", !.cat = catRows]]
            /\ UNCHANGED <<originalItemIds, loading, e1>>
    /\ lastLoad' = NoLastLoad
    /\ sent' = <<>>
    /\ saveEnd' = NoSaveEnd
    /\ UNCHANGED <<isAdmin, orderId, items, savePc, saveCl, saving, db>>

\* The first catalog RPC answered (341-353).
CatalogAnswer(p, ok, cat) ==
    /\ UNCHANGED otherThanOrd
    /\ load[p].pc = "catalog"
    /\ IF ~ok /\ ~load[p].admin
       THEN /\ load' = [load EXCEPT ![p].pc = "catalogFallback"]
            /\ lastLoad' = NoLastLoad
            /\ sent' = <<>>
            /\ saveEnd' = NoSaveEnd
            /\ UNCHANGED <<isAdmin, orderId, items, products, variants, loading,
                           originalItemIds, savePc, saveCl, saving, db, e1>>
       ELSE AfterCatalog(p, IF ok THEN cat ELSE <<>>)

\* client_catalog_for_admin answered an editor whose own RPC failed (347-350).
CatalogFallbackAnswer(p, ok, cat) ==
    /\ UNCHANGED otherThanOrd
    /\ load[p].pc = "catalogFallback"
    /\ AfterCatalog(p, IF ok THEN cat ELSE <<>>)

\* The orders select answered (390-402).
OrderAnswer(p, ok) ==
    /\ UNCHANGED otherThanOrd
    /\ load[p].pc = "order"
    /\ IF ok
       THEN /\ load' = [load EXCEPT ![p].pc = "items"]
            /\ loading' = loading
            /\ e1' = e1
       ELSE /\ load' = [load EXCEPT ![p] = NoLoadRun]
            /\ loading' = FALSE
            /\ e1' = TRUE
    /\ lastLoad' = NoLastLoad
    /\ sent' = <<>>
    /\ saveEnd' = NoSaveEnd
    /\ UNCHANGED <<isAdmin, orderId, items, products, variants, originalItemIds,
                   savePc, saveCl, saving, db>>

\* The load sets the items it reconciled and ends (435-460).
FinishLoad(p, its) ==
    LET reconciled == Reconcile(its, Prods(load[p].cat), Vars(load[p].cat, load[p].admin),
                                load[p].admin) IN
    /\ items' = reconciled
    /\ originalItemIds' = {reconciled[i].row_id : i \in 1..Len(reconciled)}
    /\ loading' = FALSE
    /\ e1' = FALSE
    /\ lastLoad' = [ended |-> TRUE, cat |-> load[p].cat, its |-> its]
    /\ load' = [load EXCEPT ![p] = NoLoadRun]
    /\ sent' = <<>>
    /\ saveEnd' = NoSaveEnd
    /\ UNCHANGED <<isAdmin, orderId, products, variants, savePc, saveCl, saving, db>>

\* The first order_items request answered (404-432).
ItemsAnswer(p, ok, its) ==
    /\ UNCHANGED otherThanOrd
    /\ load[p].pc = "items"
    /\ IF ~ok /\ ~load[p].admin
       THEN /\ load' = [load EXCEPT ![p].pc = "itemsFallback"]
            /\ lastLoad' = NoLastLoad
            /\ sent' = <<>>
            /\ saveEnd' = NoSaveEnd
            /\ UNCHANGED <<isAdmin, orderId, items, products, variants, loading,
                           originalItemIds, savePc, saveCl, saving, db, e1>>
       ELSE FinishLoad(p, IF ok THEN its ELSE <<>>)

\* The plain select answered an editor whose RPC failed (414-421).
ItemsFallbackAnswer(p, ok, its) ==
    /\ UNCHANGED otherThanOrd
    /\ load[p].pc = "itemsFallback"
    /\ FinishLoad(p, IF ok THEN its ELSE <<>>)

\* OrderEditor right after it mounted: the first render and the load effect.
OrderInit ==
    /\ isAdmin \in BOOLEAN
    /\ orderId \in {NoId, 1}
    /\ items = <<BlankItem(isAdmin)>>
    /\ products = <<>>
    /\ variants = <<>>
    /\ loading = TRUE
    /\ originalItemIds = {}
    /\ load = StartLoad([p \in LoadIds |-> NoLoadRun], isAdmin)
    /\ lastLoad = NoLastLoad
    /\ savePc = "idle"
    /\ saveCl = NoSave
    /\ sent = <<>>
    /\ saving = FALSE
    /\ saveEnd = NoSaveEnd
    /\ e1 = FALSE
    /\ db = NoDb
    /\ dashIsAdmin = FALSE /\ clients = {} /\ canDeleteOrders = FALSE /\ orders = {}
    /\ roleRpc = [adm |-> "await", edt |-> "await"] /\ pageLoads = 0 /\ delReqs = {}
    /\ lastDel = [who |-> "none", out |-> "none", confirmed |-> FALSE]
    /\ filter = "fa" /\ rows = NoRows /\ inflight = {} /\ loadEnd = NoLoad
    /\ open = "none" /\ pc = [p \in Procs |-> "idle"] /\ cur = [p \in Procs |-> NoCur]
    /\ trace = [p \in Procs |-> <<>>] /\ done = <<>> /\ call = NoCall /\ stock = AnyStock
    /\ appVer = "plain" /\ route = Login /\ session = Null /\ authReady = FALSE
    /\ userRole = "editor" /\ storage = Absent /\ backend = Null
    /\ initPc = "getSession" /\ mountLogin = TRUE /\ roleReqs = {} /\ soPc = "idle"
    /\ view = "init" /\ lastEv = "none" /\ hist = NoHist

\* One mounted OrderEditor whose props stay as they are.
OrderNext ==
    \/ \E p \in LoadIds, ok \in BOOLEAN, cat \in Catalogs : CatalogAnswer(p, ok, cat)
    \/ \E p \in LoadIds, ok \in BOOLEAN, cat \in Catalogs : CatalogFallbackAnswer(p, ok, cat)
    \/ \E p \in LoadIds, ok \in BOOLEAN : OrderAnswer(p, ok)
    \/ \E p \in LoadIds, ok \in BOOLEAN, its \in ItemRows : ItemsAnswer(p, ok, its)
    \/ \E p \in LoadIds, ok \in BOOLEAN, its \in ItemRows : ItemsFallbackAnswer(p, ok, its)

SpecOrder == OrderInit /\ [][OrderNext]_vars

----
(***************************************************************************)
(* OrderEditor: role changes, item edits and save                          *)
(***************************************************************************)
\* The answers used where loads overlap: one row (no row after an error).
OneCatalogs == {c \in Catalogs : Len(c) = 1 /\ c[1].product_id = 1 /\ c[1].product_name = 1
                                            /\ c[1].variant_name = 1}
OneItemRows == {its \in ItemRows : Len(its) = 1 /\ its[1].product_name = 1
                                               /\ its[1].variation = 1}

\* App passes another isAdmin (userRole changed): the load effect runs again
\* while earlier runs go on (337-460, no cancellation).
RoleChanges ==
    /\ UNCHANGED otherThanOrd
    /\ \E p \in LoadIds : load[p].pc = "idle"
    /\ isAdmin' = ~isAdmin
    /\ load' = StartLoad(load, ~isAdmin)
    /\ loading' = TRUE
    /\ lastLoad' = NoLastLoad
    /\ sent' = <<>>
    /\ saveEnd' = NoSaveEnd
    /\ UNCHANGED <<orderId, items, products, variants, originalItemIds, savePc, saveCl, saving, db, e1>>

\* addItem (462-466).
addItem ==
    /\ UNCHANGED otherThanOrd
    /\ ~loading
    /\ Len(items) < MaxItems
    /\ items' = Append(items, BlankItem(isAdmin))
    /\ lastLoad' = NoLastLoad
    /\ sent' = <<>>
    /\ saveEnd' = NoSaveEnd
    /\ UNCHANGED <<isAdmin, orderId, products, variants, loading, originalItemIds,
                   load, savePc, saveCl, saving, db, e1>>

\* removeItem (467).
removeItem(idx) ==
    /\ UNCHANGED otherThanOrd
    /\ ~loading
    /\ idx \in 1..Len(items)
    /\ items' = SubSeq(items, 1, idx - 1) \o SubSeq(items, idx + 1, Len(items))
    /\ lastLoad' = NoLastLoad
    /\ sent' = <<>>
    /\ saveEnd' = NoSaveEnd
    /\ UNCHANGED <<isAdmin, orderId, products, variants, loading, originalItemIds,
                   load, savePc, saveCl, saving, db, e1>>

\* onSelectProduct (484-494): the option "" or one of the products.
onSelectProduct(idx, product_id) ==
    /\ UNCHANGED otherThanOrd
    /\ ~loading
    /\ idx \in 1..Len(items)
    /\ product_id = NoId \/ \E i \in 1..Len(products) : products[i].id = product_id
    /\ LET Fits(pp) == pp.id = product_id
           i == FindIdx(products, Fits) IN
       items' = [items EXCEPT ![idx] =
                    [@ EXCEPT !.product_id = product_id,
                              !.product_name = IF i = 0 THEN NoName ELSE products[i].name,
                              !.variant_id = NoId,
                              !.variation = NoName,
                              !.wholesale_price = IF isAdmin THEN Num(0) ELSE Undefined]]
    /\ lastLoad' = NoLastLoad
    /\ sent' = <<>>
    /\ saveEnd' = NoSaveEnd
    /\ UNCHANGED <<isAdmin, orderId, products, variants, loading, originalItemIds,
                   load, savePc, saveCl, saving, db, e1>>

\* Number(v.wholesale_price ?? 0).
NumberOr0(x) == IF x.k = "num" THEN x ELSE Num(0)

\* onSelectVariant (496-505): one of the variants of the item's product.
onSelectVariant(idx, variant_id) ==
    /\ UNCHANGED otherThanOrd
    /\ ~loading
    /\ idx \in 1..Len(items)
    /\ items[idx].product_id # NoId
    /\ \E i \in 1..Len(variants) : /\ variants[i].id = variant_id
                                   /\ variants[i].product_id = items[idx].product_id
    /\ LET Fits(x) == x.id = variant_id
           v == variants[FindIdx(variants, Fits)] IN
       items' = [items EXCEPT ![idx] =
                    [@ EXCEPT !.variant_id = variant_id,
                              !.variation = v.name,
                              !.wholesale_price = IF isAdmin THEN NumberOr0(v.wholesale_price)
                                                  ELSE Undefined]]
    /\ lastLoad' = NoLastLoad
    /\ sent' = <<>>
    /\ saveEnd' = NoSaveEnd
    /\ UNCHANGED <<isAdmin, orderId, products, variants, loading, originalItemIds,
                   load, savePc, saveCl, saving, db, e1>>

\* String.prototype.trim on the names of the model: name 2 is name 1 followed
\* by a blank, the other names have no blanks around them.
Trim(name) == IF name = 2 THEN 1 ELSE name

\* The requests of one step of save, from the values save captured:
\* deletions (534-539), updates (542-559), inserts (562-578).
toDelete(cl) == cl.originals \ {cl.items[i].row_id : i \in 1..Len(cl.items)}

SaveReq(op, row_id) ==
    [op |-> op, row_id |-> row_id, product_name |-> NoName, variation |-> NoName,
     wholesale_price |-> Undefined]

ItemPayload(op, it, admin) ==
    [op |-> op, row_id |-> it.row_id,
     product_name |-> Trim(it.product_name),
     variation |-> Trim(it.variation),
     wholesale_price |-> IF admin THEN NumberOr0(it.wholesale_price) ELSE Undefined]

updates(cl) ==
    LET kept == SelectSeq(cl.items, LAMBDA it : it.row_id # NoId) IN
    [i \in 1..Len(kept) |-> ItemPayload("update", kept[i], cl.admin)]

insertsData(cl) ==
    LET new == SelectSeq(cl.items, LAMBDA it : it.row_id = NoId) IN
    [i \in 1..Len(new) |-> ItemPayload("insert", new[i], cl.admin)]

\* The steps of save with the inserts before the updates.
StepAfter_InsertsBeforeUpdates(st, cl) ==
    IF st = "header" /\ toDelete(cl) # {} THEN "delete"
    ELSE IF st \in {"header", "delete"} /\ insertsData(cl) # <<>> THEN "insert"
    ELSE IF st \in {"header", "delete", "insert"} /\ updates(cl) # <<>> THEN "update"
    ELSE "end"

\* The step of save that comes after step st; steps with nothing to send are
\* passed over.
StepAfter(st, cl) ==
    IF st = "header" /\ toDelete(cl) # {} THEN "delete"
    ELSE IF st \in {"header", "delete"} /\ updates(cl) # <<>> THEN "update"
    ELSE IF st \in {"header", "delete", "update"} /\ insertsData(cl) # <<>> THEN "insert"
    ELSE "end"

\* The ids of a set in ascending order.
RECURSIVE IdSeq(_)
IdSeq(ids) ==
    IF ids = {} THEN <<>>
    ELSE LET m == CHOOSE x \in ids : \A y \in ids : x <= y IN <<m>> \o IdSeq(ids \ {m})

\* What a step sends: one delete of all the ids, one update per kept item
\* (Promise.all), one insert of all the new rows.
Sent(st, cl) ==
    IF st = "header" THEN <<SaveReq(IF cl.id = NoId THEN "insertOrder" ELSE "updateOrder", NoId)>>
    ELSE IF st = "delete"
    THEN LET ids == IdSeq(toDelete(cl)) IN [i \in 1..Len(ids) |-> SaveReq("delete", ids[i])]
    ELSE IF st = "update" THEN updates(cl)
    ELSE IF st = "insert" THEN insertsData(cl)
    ELSE <<>>

\* The backend after the requests of step st, those in fails excepted.  The
\* delete and the insert are one request each, the updates are one request
\* per row.  A new order has no items; a row inserted by an editor gets no
\* wholesale_price.
Apply(d, st, cl, fails) ==
    LET reqs == Sent(st, cl) IN
    IF st = "header"
    THEN IF fails # {} THEN d
         ELSE IF cl.id = NoId
         THEN [d EXCEPT !.created = @ + 1, !.applied = @ \cup {"insertOrder"}, !.items = <<>>]
         ELSE [d EXCEPT !.applied = @ \cup {"updateOrder"}]
    ELSE IF st = "delete"
    THEN IF fails # {} THEN d
         ELSE [d EXCEPT !.applied = @ \cup {"delete"},
                        !.items = SelectSeq(@, LAMBDA r : r.id \notin toDelete(cl))]
    ELSE IF st = "update"
    THEN LET applied == {j \in 1..Len(reqs) : j \notin fails}
             Patch(r) ==
                 IF \E j \in applied : reqs[j].row_id = r.id
                 THEN LET q == reqs[CHOOSE j \in applied : reqs[j].row_id = r.id] IN
                      [r EXCEPT !.product_name = q.product_name,
                                !.variation = q.variation,
                                !.wholesale_price = IF q.wholesale_price = Undefined
                                                    THEN @ ELSE q.wholesale_price]
                 ELSE r IN
         [d EXCEPT !.applied = IF applied = {} THEN @ ELSE @ \cup {"update"},
                   !.items = [i \in 1..Len(@) |-> Patch(@[i])]]
    ELSE IF fails # {} THEN d
    ELSE [d EXCEPT !.applied = @ \cup {"insert"},
                   !.next = @ + Len(reqs),
                   !.items = @ \o [j \in 1..Len(reqs) |->
                        [id |-> d.next + j - 1,
                         product_name |-> reqs[j].product_name,
                         variation |-> reqs[j].variation,
                         wholesale_price |-> IF reqs[j].wholesale_price = Undefined
                                             THEN PNull ELSE reqs[j].wholesale_price]]]

\* The highest order_items id the backend is followed to.
MaxRowId == 2 * MaxItems

\* The editor is on the screen: its handlers and effects run.
Mounted == savePc # "left"

\* The Save button (507-519 or 507-528): save runs up to the answer of the
\* header request; the button is disabled while saving (710).
saveClick ==
    /\ UNCHANGED otherThanOrd
    /\ Mounted
    /\ ~loading
    /\ ~saving
    /\ saving' = TRUE
    /\ savePc' = "header"
    /\ saveCl' = [admin |-> isAdmin, items |-> items, originals |-> originalItemIds,
                  id |-> orderId, log |-> <<>>]
    /\ sent' = Sent("header", saveCl')
    /\ lastLoad' = NoLastLoad
    /\ saveEnd' = NoSaveEnd
    /\ UNCHANGED <<isAdmin, orderId, items, products, variants, loading,
                   originalItemIds, load, e1, db>>

\* The requests of a step of save answered (520-586), those in fails with an
\* error.  An error ends save with an alert (582-583); after the last step
\* onCancel leaves the editor (580): App shows the client page, the editor is
\* unmounted and what its loads still set is lost; setSaving(false) runs in
\* both cases (584-585).
saveAnswer(fails) ==
    /\ UNCHANGED otherThanOrd
    /\ savePc \notin {"idle", "left"}
    /\ fails \subseteq 1..Len(sent)
    /\ savePc = "update" \/ fails \subseteq {1}
    /\ Apply(db, savePc, saveCl, fails).created <= MaxOrders
    /\ Apply(db, savePc, saveCl, fails).next <= MaxRowId + 1
    /\ lastLoad' = NoLastLoad
    /\ UNCHANGED <<isAdmin, orderId>>
    /\ IF fails # {}
       THEN /\ savePc' = "idle"
            /\ saveCl' = NoSave
            /\ sent' = <<>>
            /\ saving' = FALSE
            /\ db' = Apply(db, savePc, saveCl, fails)
            /\ saveEnd' = [out |-> "alert", cl |-> saveCl, db |-> db']
            /\ UNCHANGED <<items, products, variants, loading, originalItemIds, load, e1>>
       ELSE IF StepAfter(savePc, saveCl) # "end"
       THEN /\ savePc' = StepAfter(savePc, saveCl)
            /\ db' = Apply(db, savePc, saveCl, fails)
            /\ saveCl' = [saveCl EXCEPT !.log = Append(@, savePc),
                                        !.id = IF savePc = "header" /\ @ = NoId
                                               THEN 1 + db'.created ELSE @]
            /\ sent' = Sent(savePc', saveCl')
            /\ saveEnd' = NoSaveEnd
            /\ UNCHANGED <<saving, items, products, variants, loading, originalItemIds,
                           load, e1>>
       ELSE /\ savePc' = "left"
            /\ saveCl' = NoSave
            /\ sent' = <<>>
            /\ saving' = FALSE
            /\ db' = Apply(db, savePc, saveCl, fails)
            /\ saveEnd' = [out |-> "onCancel", db |-> db',
                           cl |-> [saveCl EXCEPT !.log = Append(@, savePc)]]
            /\ load' = [p \in LoadIds |-> NoLoadRun]
            /\ UNCHANGED <<items, products, variants, loading, originalItemIds, e1>>

\* One mounted OrderEditor whose isAdmin prop changes.
OrderRoleNext ==
    \/ \E p \in LoadIds, ok \in BOOLEAN, cat \in OneCatalogs : CatalogAnswer(p, ok, cat)
    \/ \E p \in LoadIds, ok \in BOOLEAN, cat \in OneCatalogs : CatalogFallbackAnswer(p, ok, cat)
    \/ \E p \in LoadIds, ok \in BOOLEAN : OrderAnswer(p, ok)
    \/ \E p \in LoadIds, ok \in BOOLEAN, its \in OneItemRows : ItemsAnswer(p, ok, its)
    \/ \E p \in LoadIds, ok \in BOOLEAN, its \in OneItemRows : ItemsFallbackAnswer(p, ok, its)
    \/ RoleChanges
    \/ addItem
    \/ \E idx \in 1..MaxItems : removeItem(idx)
    \/ \E idx \in 1..MaxItems, product_id \in Pids \cup {NoId} : onSelectProduct(idx, product_id)
    \/ \E idx \in 1..MaxItems, variant_id \in 1..MaxCat : onSelectVariant(idx, variant_id)

SpecOrderRole == OrderInit /\ [][OrderRoleNext]_vars

\* One mounted OrderEditor whose props stay as they are, edited and saved,
\* with nobody else writing the order: the load shows the stored items.
OrderSaveInit ==
    /\ isAdmin \in BOOLEAN
    /\ orderId \in {NoId, 1}
    /\ items = <<BlankItem(isAdmin)>>
    /\ products = <<>>
    /\ variants = <<>>
    /\ loading = TRUE
    /\ originalItemIds = {}
    /\ load = StartLoad([p \in LoadIds |-> NoLoadRun], isAdmin)
    /\ lastLoad = NoLastLoad
    /\ savePc = "idle"
    /\ saveCl = NoSave
    /\ sent = <<>>
    /\ saving = FALSE
    /\ saveEnd = NoSaveEnd
    /\ e1 = FALSE
    /\ \E st \in StoredItems :
          db = IF orderId = NoId THEN NoDb ELSE [NoDb EXCEPT !.items = st, !.next = Len(st) + 1]
    /\ dashIsAdmin = FALSE /\ clients = {} /\ canDeleteOrders = FALSE /\ orders = {}
    /\ roleRpc = [adm |-> "await", edt |-> "await"] /\ pageLoads = 0 /\ delReqs = {}
    /\ lastDel = [who |-> "none", out |-> "none", confirmed |-> FALSE]
    /\ filter = "fa" /\ rows = NoRows /\ inflight = {} /\ loadEnd = NoLoad
    /\ open = "none" /\ pc = [p \in Procs |-> "idle"] /\ cur = [p \in Procs |-> NoCur]
    /\ trace = [p \in Procs |-> <<>>] /\ done = <<>> /\ call = NoCall /\ stock = AnyStock
    /\ appVer = "plain" /\ route = Login /\ session = Null /\ authReady = FALSE
    /\ userRole = "editor" /\ storage = Absent /\ backend = Null
    /\ initPc = "getSession" /\ mountLogin = TRUE /\ roleReqs = {} /\ soPc = "idle"
    /\ view = "init" /\ lastEv = "none" /\ hist = NoHist

\* The items are edited between the saves, not while one runs.
OrderSaveNext ==
    \/ \E p \in LoadIds, ok \in BOOLEAN, cat \in OneCatalogs : CatalogAnswer(p, ok, cat)
    \/ \E p \in LoadIds, ok \in BOOLEAN, cat \in OneCatalogs : CatalogFallbackAnswer(p, ok, cat)
    \/ \E p \in LoadIds, ok \in BOOLEAN : OrderAnswer(p, ok)
    \/ \E p \in LoadIds, ok \in BOOLEAN : ItemsAnswer(p, ok, db.items)
    \/ \E p \in LoadIds, ok \in BOOLEAN : ItemsFallbackAnswer(p, ok, db.items)
    \/ Mounted /\ ~saving /\ addItem
    \/ \E idx \in 1..MaxItems : Mounted /\ ~saving /\ removeItem(idx)
    \/ \E idx \in 1..MaxItems, product_id \in Pids \cup {NoId} : Mounted /\ ~saving /\ onSelectProduct(idx, product_id)
    \/ \E idx \in 1..MaxItems, variant_id \in 1..MaxCat : Mounted /\ ~saving /\ onSelectVariant(idx, variant_id)
    \/ saveClick
    \/ \E fails \in SUBSET (1..MaxItems) : saveAnswer(fails)

SpecOrderSave == OrderSaveInit /\ [][OrderSaveNext]_vars

\* One mounted OrderEditor whose isAdmin prop changes, saved without edits
\* once its loads have ended, with nobody else writing the order; the orders
\* select and an admin's order_items select succeed, and the role does not
\* change while a save runs.
OrderRoleSaveNext ==
    \/ \E p \in LoadIds, ok \in BOOLEAN, cat \in OneCatalogs : CatalogAnswer(p, ok, cat)
    \/ \E p \in LoadIds, ok \in BOOLEAN, cat \in OneCatalogs : CatalogFallbackAnswer(p, ok, cat)
    \/ \E p \in LoadIds : OrderAnswer(p, TRUE)
    \/ \E p \in LoadIds, ok \in BOOLEAN : (ok \/ ~load[p].admin) /\ ItemsAnswer(p, ok, db.items)
    \/ \E p \in LoadIds, ok \in BOOLEAN : ItemsFallbackAnswer(p, ok, db.items)
    \/ Mounted /\ ~saving /\ RoleChanges
    \/ (\A p \in LoadIds : load[p].pc = "idle") /\ saveClick
    \/ \E fails \in SUBSET (1..MaxItems) : saveAnswer(fails)

SpecOrderRoleSave == OrderSaveInit /\ [][OrderRoleSaveNext]_vars

----
(***************************************************************************)
(* DashboardPage.del and ClientPage.deleteOrder                            *)
(***************************************************************************)
ClientIds == {"c1", "c2"}
OrderIds == {"o1", "o2"}
\* What an RPC answers: data true, data false, or an error (data null).
RpcAnswers == {"true", "false", "error"}
Awaited == [adm |-> "await", edt |-> "await"]
NoDel == [who |-> "none", out |-> "none", confirmed |-> FALSE]

\* Boolean(data).
BooleanOf(ans) == ans = "true"

\* The is_admin effect of DashboardPage after its await (15-21): isAdmin is
\* set unless the RPC failed, then load() is called.
DashRoleAnswer(ans) ==
    /\ UNCHANGED otherThanDel
    /\ view = "dashboard"
    /\ roleRpc.adm = "await"
    /\ roleRpc' = [adm |-> ans, edt |-> "none"]
    /\ dashIsAdmin' = IF ans # "error" THEN BooleanOf(ans) ELSE dashIsAdmin
    /\ pageLoads' = pageLoads + 1
    /\ lastDel' = NoDel
    /\ UNCHANGED <<clients, canDeleteOrders, orders, delReqs>>

\* DashboardPage.load after its await (23-32).
DashLoadAnswer(ok, list) ==
    /\ UNCHANGED otherThanDel
    /\ view = "dashboard"
    /\ pageLoads > 0
    /\ pageLoads' = pageLoads - 1
    /\ clients' = IF ok THEN list ELSE {}
    /\ lastDel' = NoDel
    /\ UNCHANGED <<dashIsAdmin, canDeleteOrders, orders, roleRpc, delReqs>>

\* A del that asks for the confirmation only.
del_ConfirmOnly(admin, confirmed) == confirmed

\* del up to its request (50-55): sent for an admin who confirmed.
del(admin, confirmed) == admin /\ confirmed

\* The Delete button of a client row: del(id) up to its await (50-55).
DelClick(id, confirmed) ==
    /\ UNCHANGED otherThanDel
    /\ view = "dashboard"
    /\ id \in clients
    /\ id \notin delReqs
    /\ IF del(dashIsAdmin, confirmed)
       THEN /\ delReqs' = delReqs \cup {id}
            /\ lastDel' = [who |-> "del", out |-> "sent", confirmed |-> confirmed]
       ELSE /\ delReqs' = delReqs
            /\ lastDel' = [who |-> "del", out |-> IF dashIsAdmin THEN "return" ELSE "alert",
                           confirmed |-> confirmed]
    /\ UNCHANGED <<dashIsAdmin, clients, canDeleteOrders, orders, roleRpc, pageLoads>>

\* del after its await (60-66): an alert, or load().
DelAnswer(id, ok) ==
    /\ UNCHANGED otherThanDel
    /\ view = "dashboard"
    /\ id \in delReqs
    /\ ok => pageLoads < MaxLoads
    /\ delReqs' = delReqs \ {id}
    /\ pageLoads' = IF ok THEN pageLoads + 1 ELSE pageLoads
    /\ lastDel' = NoDel
    /\ UNCHANGED <<dashIsAdmin, clients, canDeleteOrders, orders, roleRpc>>

\* The role effect of ClientPage after Promise.all (85-91).
ClientRoleAnswer(adm, edt) ==
    /\ UNCHANGED otherThanDel
    /\ view = "client"
    /\ roleRpc.adm = "await"
    /\ roleRpc' = [adm |-> adm, edt |-> edt]
    /\ canDeleteOrders' = (BooleanOf(adm) \/ BooleanOf(edt))
    /\ lastDel' = NoDel
    /\ UNCHANGED <<dashIsAdmin, clients, orders, pageLoads, delReqs>>

\* ClientPage.load after its awaits (41-79): the clients select failed (the
\* orders stay), the order_totals select failed (no orders), or both answered.
ClientLoadAnswer(outcome, list) ==
    /\ UNCHANGED otherThanDel
    /\ view = "client"
    /\ pageLoads > 0
    /\ pageLoads' = pageLoads - 1
    /\ orders' = IF outcome = "ok" THEN list
                 ELSE IF outcome = "clientError" THEN orders
                 ELSE {}
    /\ lastDel' = NoDel
    /\ UNCHANGED <<dashIsAdmin, clients, canDeleteOrders, roleRpc, delReqs>>

\* deleteOrder up to its request (106-109).
deleteOrder(can, confirmed) == can /\ confirmed

\* The Delete button of an order row: deleteOrder(id) up to its await.
DeleteOrderClick(id, confirmed) ==
    /\ UNCHANGED otherThanDel
    /\ view = "client"
    /\ id \in orders
    /\ id \notin delReqs
    /\ IF deleteOrder(canDeleteOrders, confirmed)
       THEN /\ delReqs' = delReqs \cup {id}
            /\ lastDel' = [who |-> "deleteOrder", out |-> "sent", confirmed |-> confirmed]
       ELSE /\ delReqs' = delReqs
            /\ lastDel' = [who |-> "deleteOrder",
                           out |-> IF canDeleteOrders THEN "return" ELSE "alert",
                           confirmed |-> confirmed]
    /\ UNCHANGED <<dashIsAdmin, clients, canDeleteOrders, orders, roleRpc, pageLoads>>

\* deleteOrder after its await (110-111): an alert, or load().
DeleteOrderAnswer(id, ok) ==
    /\ UNCHANGED otherThanDel
    /\ view = "client"
    /\ id \in delReqs
    /\ ok => pageLoads < MaxLoads
    /\ delReqs' = delReqs \ {id}
    /\ pageLoads' = IF ok THEN pageLoads + 1 ELSE pageLoads
    /\ lastDel' = NoDel
    /\ UNCHANGED <<dashIsAdmin, clients, canDeleteOrders, orders, roleRpc>>

\* DashboardPage or ClientPage right after it mounted: the role check is
\* awaited; ClientPage's load effect called load().
DelInit ==
    /\ view \in {"dashboard", "client"}
    /\ dashIsAdmin = FALSE
    /\ clients = {}
    /\ canDeleteOrders = FALSE
    /\ orders = {}
    /\ roleRpc = Awaited
    /\ pageLoads = IF view = "client" THEN 1 ELSE 0
    /\ delReqs = {}
    /\ lastDel = NoDel
    /\ filter = "fa" /\ rows = NoRows /\ inflight = {} /\ loadEnd = NoLoad
    /\ open = "none" /\ pc = [p \in Procs |-> "idle"] /\ cur = [p \in Procs |-> NoCur]
    /\ trace = [p \in Procs |-> <<>>] /\ done = <<>> /\ call = NoCall /\ stock = AnyStock
    /\ appVer = "plain" /\ route = Login /\ session = Null /\ authReady = TRUE
    /\ userRole = "editor" /\ storage = Absent /\ backend = Null
    /\ initPc = "done" /\ mountLogin = TRUE /\ roleReqs = {} /\ soPc = "idle"
    /\ lastEv = "none" /\ hist = NoHist
    /\ isAdmin = FALSE /\ orderId = NoId /\ items = <<>> /\ products = <<>> /\ variants = <<>>
    /\ loading = TRUE /\ originalItemIds = {}
    /\ load = [p \in LoadIds |-> NoLoadRun] /\ lastLoad = NoLastLoad
    /\ savePc = "idle" /\ saveCl = NoSave /\ sent = <<>> /\ saving = FALSE
    /\ saveEnd = NoSaveEnd /\ e1 = FALSE /\ db = NoDb

DelNext ==
    \/ \E ans \in RpcAnswers : DashRoleAnswer(ans)
    \/ \E ok \in BOOLEAN, list \in SUBSET ClientIds : DashLoadAnswer(ok, list)
    \/ \E id \in ClientIds, confirmed \in BOOLEAN : DelClick(id, confirmed)
    \/ \E id \in ClientIds, ok \in BOOLEAN : DelAnswer(id, ok)
    \/ \E adm \in RpcAnswers, edt \in RpcAnswers : ClientRoleAnswer(adm, edt)
    \/ \E outcome \in {"ok", "clientError", "ordersError"}, list \in SUBSET OrderIds :
            ClientLoadAnswer(outcome, list)
    \/ \E id \in OrderIds, confirmed \in BOOLEAN : DeleteOrderClick(id, confirmed)
    \/ \E id \in OrderIds, ok \in BOOLEAN : DeleteOrderAnswer(id, ok)

SpecDel == DelInit /\ [][DelNext]_vars

----
(***************************************************************************)
(* Properties of InventoryTable and MovementMenu                           *)
(***************************************************************************)
\* The runs of submit() in sight: the running ones and the one that ended in
\* the last step.
SubmitRuns == {trace[p] : p \in Procs} \cup {done}

\* Event i of run t is the error answer to the destination insert of a
\* transfer with conversion, whose 'out' insert had succeeded.
DestinationFailedAt(t, i) ==
    /\ i >= 4
    /\ i <= Len(t)
    /\ t[i] = Err
    /\ t[i-1].e = "req" /\ t[i-1].mv = "in" /\ t[i-1].item = Dst
    /\ t[i-2] = Ok
    /\ t[i-3].e = "req" /\ t[i-3].mv = "out" /\ t[i-3].item = Src

\* C1: in a transfer with conversion whose 'out' insert succeeded and whose
\* destination 'in' insert failed, submit issues exactly one compensating 'in'
\* movement on the source item, with the consumed quantity, and issues it
\* before it reports the destination error.
C1_CompensationIssued ==
    \A t \in SubmitRuns : \A i \in 1 .. Len(t) :
        DestinationFailedAt(t, i) =>
            /\ Len(t) > i
            /\ t[i+1] = Req(Src, "in", t[i-3].qty, "-")
            /\ Cardinality({j \in 1 .. Len(t) :
                   t[j].e = "req" /\ t[j].mv = "in" /\ t[j].item = Src}) = 1
            /\ \A j \in 1 .. Len(t) : t[j] = Alert => j > i + 1

\* A submit ended whose destination insert failed after the 'out' succeeded.
C1_Witness ==
    /\ Len(done) = 7
    /\ DestinationFailedAt(done, 4)
    /\ done[7] = Alert

\* C2: every request that is answered with an error is followed by an alert
\* before its handler ends, in load() as in submit().
C2_EveryErrorAlerted ==
    /\ loadEnd.ended /\ loadEnd.err => loadEnd.alert
    /\ \A i \in 1 .. Len(done) :
           done[i] = Err => \E j \in i + 1 .. Len(done) : done[j] = Alert

\* C9: a handler that had a write request succeed reloads before it ends.
C9_WriteThenReload ==
    (\E i \in 1 .. Len(done) : done[i] = Ok) =>
        \E j \in 1 .. Len(done) : done[j] = Reload

RECURSIVE NetRecorded(_, _)
\* The sum over the requests of run t that were answered without error.
NetRecorded(t, item) ==
    IF Len(t) < 2 THEN 0
    ELSE (IF t[1].e = "req" /\ t[2] = Ok THEN Delta(t[1], item) ELSE 0)
         + NetRecorded(Tail(t), item)

\* C12: a submit whose destination insert failed has recorded a net change of
\* zero for the source and nothing for the destination when it ends.
C12_FailedTransferNetZero ==
    (\E i \in 1 .. Len(done) : DestinationFailedAt(done, i)) =>
        /\ NetRecorded(done, Src) = 0
        /\ NetRecorded(done, Dst) = 0

\* A call of submit for a transfer with a destination, enough displayed
\* stock and a produced quantity that is blank or a number >= 0.
AcceptedTransfer(c) ==
    /\ c.kind = "transfer"
    /\ c.qty > 0
    /\ c.to # NoItem
    /\ c.qty <= c.avail
    /\ c.prod = Blank \/ (c.prod.k = "num" /\ c.prod.v >= 0)

SameQty(c) == c.prod = Blank \/ c.prod = Num(c.qty)

IsReq(ev, item, mv) == ev.e = "req" /\ ev.item = item /\ ev.mv = mv

\* C13: a transfer whose produced quantity is blank or equal to qty issues one
\* 'transfer' movement on the destination with from_item_id = source and that
\* qty and nothing else; any other transfer issues an 'out' of qty on the
\* source and, only after that was stored, an 'in' of the produced quantity
\* on the destination.
C13_TransferShape ==
    /\ AcceptedTransfer(call) =>
          \E p \in Procs :
              trace[p] = <<IF SameQty(call)
                           THEN Req(call.to, "transfer", call.qty, Src)
                           ELSE Req(Src, "out", call.qty, "-")>>
    /\ \A p \in Procs :
          (pc[p] # "idle" /\ cur[p].to # NoItem) =>
              LET t == trace[p]
                  c == cur[p] IN
              IF c.prod = c.qty
              THEN t = <<Req(c.to, "transfer", c.qty, Src)>>
              ELSE /\ t[1] = Req(Src, "out", c.qty, "-")
                   /\ Len(t) >= 2 => t[2] = Ok /\ t[3] = Req(c.to, "in", c.prod, "-")
                   /\ \A i \in 1 .. Len(t) : IsReq(t[i], c.to, "in") => i = 3
    /\ \A i \in 1 .. Len(done) :
          /\ (done[i].e = "req" /\ done[i].mv = "transfer") =>
                /\ i = 1
                /\ done[i].item = Dst /\ done[i].from = Src
                /\ \A j \in 1 .. Len(done) : done[j].e = "req" => j = 1
          /\ IsReq(done[i], Dst, "in") =>
                i = 3 /\ IsReq(done[1], Src, "out") /\ done[2] = Ok

C13_Witness ==
    /\ call.kind = "transfer"
    /\ call.prod = Blank
    /\ \E p, q \in Procs : pc[p] = "await_transfer" /\ pc[q] = "await_in"

\* A call of submit the validation turns down: qty <= 0, or for a transfer
\* no destination, more than the displayed quantity on hand, or a produced
\* quantity that is negative or not finite.
Rejected(c) ==
    /\ c.kind # "none"
    /\ \/ c.qty <= 0
       \/ /\ c.kind = "transfer"
          /\ \/ c.to = NoItem
             \/ c.qty > c.avail
             \/ c.prod = NaN
             \/ (c.prod.k = "num" /\ c.prod.v < 0)

Requests(t) == {i \in 1 .. Len(t) : t[i].e = "req"}

\* C14: a call the validation turns down sends nothing and leaves the dialog
\* open; an 'in' or 'out' with qty > 0 sends one insert of that kind with that
\* qty on the item, and no other request up to its end.
C14_Validation ==
    [][/\ Rejected(call') =>
             /\ trace' = trace
             /\ pc' = pc
             /\ open' = open
             /\ Requests(done') = {}
       /\ (call'.kind \in {"in", "out"} /\ call'.qty > 0) =>
             \E p \in Procs :
                 /\ trace[p] = <<>>
                 /\ trace'[p] = <<Req(Src, call'.kind, call'.qty, "-")>>
                 /\ pc'[p] = "await_single"
                 /\ \A q \in Procs \ {p} : trace'[q] = trace[q]
       /\ \A p \in Procs :
             (pc[p] = "await_single" /\ pc'[p] = "idle") =>
                 Requests(done') = {1}]_vars

C14_Witness ==
    /\ call.kind = "transfer"
    /\ call.to # NoItem
    /\ call.qty > call.avail
    /\ done = <<Alert>>
    /\ open = "transfer"

\* C15: transfers never overdraw the source.  Where the table's transfers
\* are the only movements of the source item, its quantity on hand never
\* becomes negative, whatever the order of the submits, the answers and the
\* loads.
C15_NoOverdraw == stock.known => stock.v >= 0

\* C24: the table shows the current filter.  Once no load is in flight, rows
\* that are shown are the answer to the query for the current filter,
\* whatever the order of the answers; and with no client selected no rows
\* are shown.
C24_ShowsCurrentFilter ==
    inflight = {} => /\ rows.shown => rows.f = filter
                     /\ filter = NoClient => rows = NoRows

----
(***************************************************************************)
(* Properties of App                                                       *)
(***************************************************************************)

\* C3: in the persisting App, after a reload with a route R other than login
\* stored and the backend still holding the same user's session, once the
\* init effect and the role lookup are through the route is R.
C3_ReloadRestoresRoute ==
    (/\ appVer = "persist"
     /\ ~hist.touched
     /\ hist.route.name # "login"
     /\ hist.user # Null
     /\ backend = hist.user
     /\ session = hist.user
     /\ initPc = "done"
     /\ roleReqs = {})
    => route = hist.route

Pages == {"dashboard", "client", "order", "products", "inventory", "inventory_raw"}

\* C5: before authReady only the placeholder is rendered, without a session
\* or on the login route only LoginPage, and a page only with a session.
C5_LoginGate ==
    /\ ~authReady => view = "init"
    /\ authReady /\ (session = Null \/ route.name = "login") => view = "LoginPage"
    /\ view \in Pages => session # Null /\ authReady

C5_Witness == authReady /\ session = Null /\ route.name \in Pages /\ view = "LoginPage"

OtherEvents == Events \ {"SIGNED_IN", "SIGNED_OUT"}

\* C10: in the persisting App an auth event other than SIGNED_IN and
\* SIGNED_OUT changes neither route nor userRole; session takes the event's
\* session.
C10_OtherEventsFrame ==
    [][(appVer = "persist" /\ lastEv' \in OtherEvents)
       => route' = route /\ userRole' = userRole /\ session' = backend]_vars

C10_Witness ==
    /\ appVer = "persist"
    /\ lastEv \in OtherEvents
    /\ route.name = "products"
    /\ session # Null

\* C11: when the sign-out handler ended, whether signOut resolved or threw,
\* session is null, userRole is editor, route is login and the handler is
\* idle again (signingOut false).
C11_SignOutClears ==
    lastEv = "signOutEnd" =>
        /\ session = Null
        /\ userRole = "editor"
        /\ route = Login
        /\ soPc = "idle"

C11_Witness == lastEv = "signOutEnd" /\ backend # Null /\ session = Null /\ route = Login

\* C21: userRole is admin only while the session is not null and the profile
\* of the session's user has the role admin; so userRole is editor whenever
\* the session is null.
C21_RoleFollowsSession ==
    userRole = "admin" => /\ session # Null
                          /\ ProfileRole(session) = "admin"

\* C22: in the persisting App, from every state where authReady is true and
\* the session is not null the route comes to be another one than login,
\* with no step of the user needed.
C22_LeavesLogin ==
    (appVer = "persist" /\ authReady /\ session # Null) ~> (route.name # "login")

\* C23: auth initialisation terminates.  From every state where
\* getSessionWithTimeout is awaited, authReady comes to be true, whether
\* getSession answers, rejects or loses against the timer; and the step that
\* ends the initialisation with no session leaves authReady true, the session
\* null, the route login and userRole editor.
C23_InitTerminates ==
    /\ (initPc = "getSession") ~> authReady
    /\ [][(initPc = "getSession" /\ initPc' = "noSession")
            => /\ authReady'
               /\ session' = Null
               /\ route' = Login
               /\ userRole' = "editor"]_vars

\* The initialisation ended with no session although the auth client holds
\* one (the timer won, or getSession rejected), on a mount that had restored
\* another route than login.
C23_Witness ==
    /\ initPc = "noSession"
    /\ backend # Null
    /\ ~mountLogin
    /\ ~hist.touched
    /\ authReady
    /\ route = Login
    /\ userRole = "editor"

\* The routes the App can hold: login, and what the pages ask go for.
AllRoutes ==
    Routes \cup {Login, Dashboard, Client("c1"), Order("o1", "c1"), Order(U, "c1"),
                 Products("c1", "c1"), Products("c1", U)}

----
(***************************************************************************)
(* Properties of OrderEditor                                               *)
(***************************************************************************)
MinOf(S) == CHOOSE k \in S : \A m \in S : k <= m

\* C6: every item a load sets has the product_id of the first catalog row
\* of that load whose product name equals the item's product_name, and the
\* variant_id of the first row of that product whose variant name equals the
\* item's variation; undefined where there is no such row.
C6_ReconcileByName ==
    lastLoad.ended =>
        /\ Len(items) = Len(lastLoad.its)
        /\ \A i \in 1..Len(items) :
            LET c == lastLoad.cat
                it == lastLoad.its[i]
                NameRows == {k \in 1..Len(c) : c[k].product_name = it.product_name}
                pid == c[MinOf(NameRows)].product_id
                VarRows == {k \in 1..Len(c) : /\ c[k].product_id = pid
                                              /\ c[k].variant_name = it.variation}
            IN  IF NameRows = {}
                THEN items[i].product_id = NoId /\ items[i].variant_id = NoId
                ELSE /\ items[i].product_id = pid
                     /\ items[i].variant_id = IF VarRows = {} THEN NoId ELSE MinOf(VarRows)

C6_Witness ==
    /\ lastLoad.ended
    /\ Len(lastLoad.cat) = 2
    /\ Len(items) = 1
    /\ lastLoad.cat[1].product_id # lastLoad.cat[2].product_id
    /\ lastLoad.cat[1].variant_name = items[1].variation
    /\ items[1].product_id = lastLoad.cat[2].product_id
    /\ items[1].variant_id = 2

\* C7: while isAdmin is false every item's wholesale_price is undefined and
\* every catalog variant's wholesale_price is null.
C7_WholesaleAdminOnly ==
    ~isAdmin =>
        /\ \A i \in 1..Len(items) : items[i].wholesale_price = Undefined
        /\ \A i \in 1..Len(variants) : variants[i].wholesale_price = PNull

\* The steps a save of the captured values has something to send for, in the
\* order header, deletions, updates, inserts.
Expected(cl) ==
    <<"header">>
    \o (IF cl.originals \ {cl.items[i].row_id : i \in 1..Len(cl.items)} # {}
        THEN <<"delete">> ELSE <<>>)
    \o (IF \E i \in 1..Len(cl.items) : cl.items[i].row_id # NoId THEN <<"update">> ELSE <<>>)
    \o (IF \E i \in 1..Len(cl.items) : cl.items[i].row_id = NoId THEN <<"insert">> ELSE <<>>)

IsPrefix(s, t) == Len(s) <= Len(t) /\ \A i \in 1..Len(s) : s[i] = t[i]

StepApplied(st, d) ==
    IF st = "header" THEN d.applied \cap {"insertOrder", "updateOrder"} # {}
    ELSE st \in d.applied

\* C16: save runs the steps header, deletions, updates, inserts in this order
\* (a step with nothing to send is passed over) and sends the requests of the
\* step it is at; saving is true exactly while it runs.  When it ended with
\* the alert, it stopped before a step it had to do, nothing is in flight,
\* and the steps done before stay applied; it called onCancel only after
\* every step it had to do.
C16_SaveSteps ==
    /\ saving <=> savePc \in {"header", "delete", "update", "insert"}
    /\ saving =>
          /\ IsPrefix(Append(saveCl.log, savePc), Expected(saveCl))
          /\ sent # <<>>
          /\ \A i \in 1..Len(sent) :
                 sent[i].op = IF savePc = "header"
                              THEN (IF orderId = NoId THEN "insertOrder" ELSE "updateOrder")
                              ELSE savePc
    /\ saveEnd.out = "alert" =>
          /\ savePc = "idle" /\ sent = <<>>
          /\ IsPrefix(saveEnd.cl.log, Expected(saveEnd.cl))
          /\ Len(saveEnd.cl.log) < Len(Expected(saveEnd.cl))
          /\ \A i \in 1..Len(saveEnd.cl.log) : StepApplied(saveEnd.cl.log[i], saveEnd.db)
          /\ (\E k \in 1..Len(saveEnd.cl.log) : saveEnd.cl.log[k] = "delete") =>
                \A i \in 1..Len(saveEnd.db.items) :
                   saveEnd.db.items[i].id \notin saveEnd.cl.originals
                   \/ \E j \in 1..Len(saveEnd.cl.items) :
                         saveEnd.cl.items[j].row_id = saveEnd.db.items[i].id
    /\ saveEnd.out = "onCancel" =>
          /\ savePc = "left" /\ sent = <<>>
          /\ saveEnd.cl.log = Expected(saveEnd.cl)
          /\ \A i \in 1..Len(saveEnd.cl.log) : StepApplied(saveEnd.cl.log[i], saveEnd.db)

C16_Witness ==
    /\ saveEnd.out = "alert"
    /\ saveEnd.cl.log = <<"header", "delete", "update">>
    /\ ~saving

\* The row ids of the items.
RowIds(its) == {its[i].row_id : i \in 1..Len(its)} \ {NoId}

\* The stored row r is the editor's item it, as save writes it.
SameItem(r, it, admin) ==
    /\ it.row_id # NoId => r.id = it.row_id
    /\ r.product_name = Trim(it.product_name)
    /\ r.variation = Trim(it.variation)
    /\ admin => r.wholesale_price = NumberOr0(it.wholesale_price)

\* C17: the delete of save names exactly the ids loaded at open that no
\* current item carries, the updates are exactly the current items with a
\* row_id and the inserted rows exactly those without one; and when save
\* ended with onCancel, the stored items of the order are the editor's items
\* (names trimmed, a price that is no number as 0).
C17_SaveDiff ==
    /\ savePc = "delete" =>
          {sent[i].row_id : i \in 1..Len(sent)} = saveCl.originals \ RowIds(saveCl.items)
    /\ savePc = "update" =>
          /\ {sent[i].row_id : i \in 1..Len(sent)} = RowIds(saveCl.items)
          /\ Len(sent) = Cardinality({i \in 1..Len(saveCl.items) : saveCl.items[i].row_id # NoId})
    /\ savePc = "insert" =>
          /\ \A i \in 1..Len(sent) : sent[i].row_id = NoId
          /\ Len(sent) = Cardinality({i \in 1..Len(saveCl.items) : saveCl.items[i].row_id = NoId})
    /\ saveEnd.out = "onCancel" =>
          /\ Len(saveEnd.db.items) = Len(saveEnd.cl.items)
          /\ \A i \in 1..Len(saveEnd.cl.items) :
                 SameItem(saveEnd.db.items[i], saveEnd.cl.items[i], saveEnd.cl.admin)

\* C18: the editor of a new order inserts at most one orders row while it is
\* mounted, however often Save is pressed.
C18_OneOrdersRow == orderId = NoId => db.created <= 1

\* C19: after the load of an existing order stopped at the error of the
\* orders select, no request of a save of that editor is applied: the stored
\* header and the stored items stay as they were.
C19_FailedLoadNoWrite == (orderId # NoId /\ e1) => db.applied = {}

\* The stored wholesale_price of the row with this id.
StoredWholesale(d, id) ==
    LET j == CHOOSE k \in 1..Len(d.items) : d.items[k].id = id IN d.items[j].wholesale_price

\* C20: once every load has ended and the editor of an admin shows the form,
\* every item of the order carries the stored wholesale price, and every
\* update an admin's save sends for an item that was not edited carries the
\* stored wholesale price (so the save leaves it as it was).
C20_OverlapKeepsWholesale ==
    /\ (Mounted /\ isAdmin /\ ~loading /\ ~saving /\ \A p \in LoadIds : load[p].pc = "idle") =>
          \A i \in 1..Len(items) :
             (items[i].row_id # NoId /\ \E k \in 1..Len(db.items) : db.items[k].id = items[i].row_id)
                => items[i].wholesale_price = StoredWholesale(db, items[i].row_id)
    /\ (savePc = "update" /\ saveCl.admin) =>
          \A i \in 1..Len(sent) :
             (\E k \in 1..Len(db.items) : db.items[k].id = sent[i].row_id)
                => sent[i].wholesale_price = StoredWholesale(db, sent[i].row_id)

----
(***************************************************************************)
(* Properties of DashboardPage.del and ClientPage.deleteOrder              *)
(***************************************************************************)
\* C8: del sends admin_delete_client only if is_admin answered true and the
\* user confirmed, deleteOrder sends the delete only if is_admin or is_editor
\* answered true and the user confirmed; a call that sends nothing leaves the
\* requests and the displayed list as they were.
C8_DeleteChecks ==
    [][/\ (lastDel'.who = "del" /\ ~(roleRpc.adm = "true" /\ lastDel'.confirmed))
            => delReqs' = delReqs /\ clients' = clients /\ lastDel'.out # "sent"
       /\ (lastDel'.who = "deleteOrder"
             /\ ~((roleRpc.adm = "true" \/ roleRpc.edt = "true") /\ lastDel'.confirmed))
            => delReqs' = delReqs /\ orders' = orders /\ lastDel'.out # "sent"]_vars

C8_Witness ==
    /\ lastDel.who = "del"
    /\ lastDel.out = "sent"
    /\ roleRpc.adm = "true"
    /\ delReqs # {}

====
